---- MODULE Spec2Model ----
(***************************************************************************)
(* A model of the DataTable component (sort / select / paginate state) of  *)
(* the UI library.  One state of the model is one committed render of the  *)
(* component: the props the caller supplied (data, selectable,             *)
(* selectionMode, itemsPerPage), the three useState cells (sortConfig,     *)
(* selectedRows, currentPage) and the dependency values of the two         *)
(* useEffect hooks as of the last time they ran.  The table is modelled    *)
(* with loading = false.                                                   *)
(***************************************************************************)
EXTENDS Integers, Sequences, FiniteSets, TLC

(***************************************************************************)
(* Bounds of the model.                                                    *)
(***************************************************************************)
MaxLen == 3          \* longest window of Master the caller supplies in Spec
MaxPerm == 3         \* longest arrangement of Pool rows supplied in SpecView
BigLen == 10         \* longest prefix of the numbered rows supplied in SpecView
MaxPageSize == 2     \* itemsPerPage ranges over 1..MaxPageSize
MaxPage == 4         \* goToNext stops at this page in SpecPageSize

(***************************************************************************)
(* Cell values.  A cell is null/undefined, a number or a string; a string  *)
(* is a sequence of one-character strings so that collation can look at    *)
(* its characters.                                                         *)
(***************************************************************************)
Null == [t |-> "null", n |-> 0, s |-> <<>>]
Num(v) == [t |-> "num", n |-> v, s |-> <<>>]
Str(chars) == [t |-> "str", n |-> 0, s |-> chars]

DigitChars == <<"0", "1", "2", "3", "4", "5", "6", "7", "8", "9">>

IsDigit(c) == \E i \in 1..10 : DigitChars[i] = c

DigitVal(c) == (CHOOSE i \in 1..10 : DigitChars[i] = c) - 1

\* Primary collation weight of a letter: case is ignored (sensitivity 'base').
LetterRank(c) ==
  CASE c \in {"a", "A"} -> 1
    [] c \in {"b", "B"} -> 2
    [] c \in {"c", "C"} -> 3
    [] OTHER -> 4

\* String(v) of a non-negative integer: its decimal digits.
RECURSIVE NumToString(_)
NumToString(v) ==
  IF v < 10 THEN <<DigitChars[v + 1]>>
  ELSE NumToString(v \div 10) \o <<DigitChars[(v % 10) + 1]>>

\* String(a) in compare: a string is itself, a number is printed.
ToStr(a) == IF a.t = "num" THEN NumToString(a.n) ELSE a.s

\* The index just past the run of digits of s that starts at i.
RECURSIVE DigitRunEnd(_, _)
DigitRunEnd(s, i) ==
  IF i <= Len(s) /\ IsDigit(s[i]) THEN DigitRunEnd(s, i + 1) ELSE i

\* The number written by the digits s[i..j-1].
RECURSIVE DigitRunVal(_, _, _)
DigitRunVal(s, i, j) ==
  IF i >= j THEN 0 ELSE DigitRunVal(s, i, j - 1) * 10 + DigitVal(s[j - 1])

\* Collation elements of s from index i on, with { numeric: true }: a run of
\* digits is one element weighted by its numeric value and sorts before
\* every letter; a letter is one element weighted by LetterRank.
RECURSIVE CollationKey(_, _)
CollationKey(s, i) ==
  IF i > Len(s) THEN <<>>
  ELSE IF IsDigit(s[i])
       THEN <<[k |-> 0, v |-> DigitRunVal(s, i, DigitRunEnd(s, i))]>>
              \o CollationKey(s, DigitRunEnd(s, i))
       ELSE <<[k |-> 1, v |-> LetterRank(s[i])]>> \o CollationKey(s, i + 1)

RECURSIVE CompareKeys(_, _, _)
CompareKeys(ka, kb, i) ==
  IF i > Len(ka) /\ i > Len(kb) THEN 0
  ELSE IF i > Len(ka) THEN -1
  ELSE IF i > Len(kb) THEN 1
  ELSE IF ka[i].k # kb[i].k THEN (IF ka[i].k < kb[i].k THEN -1 ELSE 1)
  ELSE IF ka[i].v # kb[i].v THEN (IF ka[i].v < kb[i].v THEN -1 ELSE 1)
  ELSE CompareKeys(ka, kb, i + 1)

\* sa.localeCompare(sb, undefined, { numeric: true, sensitivity: 'base' })
localeCompare(sa, sb) == CompareKeys(CollationKey(sa, 1), CollationKey(sb, 1), 1)

\* A variant of compare in which an absent value sorts after a present one.
compareNullsLast(a, b) ==
  IF a.t = "null" /\ b.t = "null" THEN 0
  ELSE IF a.t = "null" THEN 1
  ELSE IF b.t = "null" THEN -1
  ELSE IF a.t = "num" /\ b.t = "num" THEN a.n - b.n
  ELSE localeCompare(ToStr(a), ToStr(b))

compare(a, b) ==
  IF a.t = "null" /\ b.t = "null" THEN 0
  ELSE IF a.t = "null" THEN -1
  ELSE IF b.t = "null" THEN 1
  ELSE IF a.t = "num" /\ b.t = "num" THEN a.n - b.n
  ELSE localeCompare(ToStr(a), ToStr(b))

(***************************************************************************)
(* Rows and columns.  A row has a unique id and the cells name, age and    *)
(* status; a column reads the cell named by its dataIndex.                 *)
(***************************************************************************)
Row(i, nm, ag) == [id |-> i, name |-> nm, age |-> ag, status |-> Str(<<"a">>)]

Columns ==
  << [key |-> "name", dataIndex |-> "name", sortable |-> TRUE],
     [key |-> "age", dataIndex |-> "age", sortable |-> TRUE],
     [key |-> "status", dataIndex |-> "status", sortable |-> FALSE] >>

ColumnSet == {Columns[i] : i \in 1..Len(Columns)}

\* The rows of the datasets: ids 1..3 carry the ages 30, 25, 35; row 4
\* repeats the age of row 2 and its name up to case; row 5 has no name, no age.
Master ==
  << Row(1, Str(<<"b", "1", "0">>), Num(30)),
     Row(2, Str(<<"B", "2">>), Num(25)),
     Row(3, Str(<<"a">>), Num(35)),
     Row(4, Str(<<"b", "2">>), Num(25)),
     Row(5, Null, Null) >>

Pool == {Master[i] : i \in 1..Len(Master)}

\* Numbered rows: ages 7, 4, 1, 8, 5, 2, 9, 6, 3, 0, 7, ... and names c1, c2, ...
BigRow(i) == Row(100 + i, Str(<<"c">> \o NumToString(i)), Num((i * 7) % 10))

Min(a, b) == IF a < b THEN a ELSE b

Max(a, b) == IF a > b THEN a ELSE b

\* Datasets of Spec: the contiguous windows of Master of at most MaxLen rows.
Windows ==
  {SubSeq(Master, i, j) : i \in 1..Len(Master), j \in 0..Len(Master)}

DataChoices == {w \in Windows : Len(w) <= MaxLen}

\* Datasets of SpecView: every arrangement of at most MaxPerm distinct Pool
\* rows, and every prefix of the numbered rows up to BigLen.
Arrangements ==
  {s \in UNION {[1..k -> Pool] : k \in 0..MaxPerm} :
     \A i, j \in 1..Len(s) : i # j => s[i].id # s[j].id}

Prefixes == {[i \in 1..k |-> BigRow(i)] : k \in 0..BigLen}

ViewChoices == Arrangements \cup Prefixes

(***************************************************************************)
(* The state.                                                              *)
(***************************************************************************)
VARIABLES
  data,           \* prop: the rows, in the caller's order
  selectable,     \* prop
  selectionMode,  \* prop: "single" or "multiple"
  itemsPerPage,   \* prop
  sortConfig,     \* useState: NoSort or [key, direction]
  selectedRows,   \* useState: a set of row ids
  currentPage,    \* useState
  lengthDep,      \* deps [data.length] of the reset effect when it last ran
  pageDeps,       \* deps [totalPages, currentPage] of the clamp effect when it last ran
  notified        \* the onRowSelect calls of the last step: <<>> or <<rows>>

\* The state of the InputField form that stands on the same page.
VARIABLES
  value,          \* prop: NoValue or a string
  disabled,       \* prop
  loading,        \* prop
  onClear,        \* prop: TRUE when the caller passes the callback
  fullname,       \* useState
  username,       \* useState
  password,       \* useState
  showPassword,   \* useState
  isHuman,        \* useState
  valueDep,       \* deps [value] of the effect when it last ran
  cleared         \* the number of onClear calls of the last step

inputField ==
  << value, disabled, loading, onClear, fullname, username, password,
     showPassword, isHuman, valueDep, cleared >>

dataTable ==
  << data, selectable, selectionMode, itemsPerPage, sortConfig, selectedRows,
     currentPage, lengthDep, pageDeps, notified >>

vars == << dataTable, inputField >>

props == << data, selectable, selectionMode, itemsPerPage >>

NoSort == [key |-> "none", direction |-> "none"]

\* Deps of the clamp effect before it has run (totalPages is never 0).
NoDeps == << 0, 0 >>

\* Deps of the reset effect before it has run (a length is never negative).
NoLength == 0 - 1

(***************************************************************************)
(* Derived values of a render.                                             *)
(***************************************************************************)
\* A variant of RowOrder that ignores the direction.
RowOrderNoDirection(x, y, cfg) == compare(x[cfg.key], y[cfg.key])

\* The comparator handed to Array.prototype.sort.
RowOrder(x, y, cfg) ==
  IF cfg.direction = "asc" THEN compare(x[cfg.key], y[cfg.key])
  ELSE 0 - compare(x[cfg.key], y[cfg.key])

\* A variant of InsertPos for a sort that is not stable: x is placed before
\* the elements that compare equal to it.
RECURSIVE InsertPosUnstable(_, _, _, _)
InsertPosUnstable(s, x, cfg, j) ==
  IF j >= 1 /\ RowOrder(s[j], x, cfg) >= 0
  THEN InsertPosUnstable(s, x, cfg, j - 1)
  ELSE j

\* Array.prototype.sort is a stable sort: x is placed after every element
\* that does not order after it.
RECURSIVE InsertPos(_, _, _, _)
InsertPos(s, x, cfg, j) ==
  IF j >= 1 /\ RowOrder(s[j], x, cfg) > 0 THEN InsertPos(s, x, cfg, j - 1) ELSE j

RECURSIVE SortPrefix(_, _, _)
SortPrefix(rows, cfg, n) ==
  IF n = 0 THEN <<>>
  ELSE LET s == SortPrefix(rows, cfg, n - 1)
           j == InsertPos(s, rows[n], cfg, Len(s))
       IN SubSeq(s, 1, j) \o <<rows[n]>> \o SubSeq(s, j + 1, Len(s))

ArraySort(rows, cfg) == SortPrefix(rows, cfg, Len(rows))

applySort(rows, cfg) == IF cfg = NoSort THEN rows ELSE ArraySort(rows, cfg)

sortedData == applySort(data, sortConfig)

\* The two numbers of the table that are not integers: n / 0 is Infinity
\* for n > 0 and NaN for n = 0.  Infinity lies above every page number.
Infinity == 1000000

NaN == 0 - Infinity

\* a > b: false when either side is NaN.
Greater(a, b) == a # NaN /\ b # NaN /\ a > b

\* Math.min and Math.max: NaN when either argument is NaN.
MathMin(a, b) == IF a = NaN \/ b = NaN THEN NaN ELSE Min(a, b)

MathMax(a, b) == IF a = NaN \/ b = NaN THEN NaN ELSE Max(a, b)

\* Math.ceil(n / p) for n >= 0.
CeilDiv(n, p) ==
  IF p >= 1 THEN (n + p - 1) \div p
  ELSE IF p = 0 THEN (IF n = 0 THEN NaN ELSE Infinity)
  ELSE 0 - (n \div (0 - p))

TotalPagesOf(n, p) == MathMax(1, CeilDiv(n, p))

\* The page size of the derivations: the itemsPerPage prop as passed.
pageSize == itemsPerPage

totalPages == TotalPagesOf(Len(data), pageSize)

\* An index of Array.prototype.slice on an array of n elements: a negative
\* index counts from the end, and every index is clamped to 0..n.
SliceIndex(i, n) == IF i < 0 THEN Max(n + i, 0) ELSE Min(i, n)

\* Array.prototype.slice(from, to): 0-based, end exclusive.
Slice(s, from, to) ==
  SubSeq(s, SliceIndex(from, Len(s)) + 1, SliceIndex(to, Len(s)))

\* A variant of PageSlice whose end is one row short.
PageSliceShort(rows, page, p) == Slice(rows, (page - 1) * p, (page - 1) * p + p - 1)

PageSlice(rows, page, p) == Slice(rows, (page - 1) * p, (page - 1) * p + p)

paginatedData == PageSlice(sortedData, currentPage, pageSize)

\* The table (headers, rows, controls) is rendered only for non-empty data.
TableRendered == Len(data) > 0

\* The select-all checkbox is part of the header row.
SelectAllShown == TableRendered /\ selectable /\ selectionMode = "multiple"

\* The checked attribute of the select-all checkbox.
SelectAllChecked == Cardinality(selectedRows) = Len(data) /\ Len(data) > 0

\* An effect is pending when its deps differ from those of its last run.
ResetPending == lengthDep # Len(data)

ClampPending == pageDeps # << totalPages, currentPage >>

EffectsPending == ResetPending \/ ClampPending

(***************************************************************************)
(* The state updaters of the handlers and effects.                         *)
(***************************************************************************)
\* A variant of sortUpdater with a third state: descending returns to no sort.
sortUpdaterThreeState(prev, key) ==
  IF prev # NoSort /\ prev.key = key
  THEN (IF prev.direction = "asc"
        THEN [key |-> key, direction |-> "desc"]
        ELSE NoSort)
  ELSE [key |-> key, direction |-> "asc"]

\* setSortConfig((prev) => ...) in handleSort.
sortUpdater(prev, key) ==
  IF prev # NoSort /\ prev.key = key
  THEN [key |-> key, direction |-> IF prev.direction = "asc" THEN "desc" ELSE "asc"]
  ELSE [key |-> key, direction |-> "asc"]

\* data.filter((d) => ids.has(d.id)), the argument of onRowSelect.
notifySelection(ids, rows) == SelectSeq(rows, LAMBDA d : d.id \in ids)

\* A variant of selectRowUpdater whose single mode does not clear first.
selectRowUpdaterNoClear(prev, id, mode) ==
  IF mode = "single"
  THEN (IF id \in prev THEN {} ELSE prev \cup {id})
  ELSE (IF id \in prev THEN prev \ {id} ELSE prev \cup {id})

\* A variant of selectRowUpdater whose multiple mode replaces the selection.
selectRowUpdaterReplace(prev, id, mode) ==
  IF mode = "single"
  THEN (IF id \in prev THEN {} ELSE {id})
  ELSE (IF id \in prev THEN prev \ {id} ELSE {id})

\* A variant of selectRowUpdater that ignores the mode: it always toggles
\* membership, as in multiple mode.
selectRowUpdaterAnyMode(prev, id, mode) ==
  IF id \in prev THEN prev \ {id} ELSE prev \cup {id}

\* setSelectedRows((prev) => ...) in handleSelectRow.
selectRowUpdater(prev, id, mode) ==
  IF mode = "single"
  THEN (IF id \in prev THEN {} ELSE {id})
  ELSE (IF id \in prev THEN prev \ {id} ELSE prev \cup {id})

\* A variant of selectAllUpdater that is additive: it never clears.
selectAllUpdaterAdditive(prev, rows) == prev \cup {rows[i].id : i \in 1..Len(rows)}

\* setSelectedRows((prev) => ...) in handleSelectAll.
selectAllUpdater(prev, rows) ==
  IF Cardinality(prev) = Len(rows) THEN {} ELSE {rows[i].id : i \in 1..Len(rows)}

\* A variant of goToNextUpdater without the clamp.
goToNextUnclamped(p, tp) == p + 1

goToNextUpdater(p, tp) == MathMin(p + 1, tp)

goToPrevUpdater(p) == MathMax(1, p - 1)

\* The setCurrentPage calls of the reset effect, in order.
resetEffect == <<1>>

\* The setCurrentPage calls of the clamp effect of a render with page p of tp.
clampEffect(p, tp) == IF Greater(p, tp) THEN <<tp>> ELSE <<>>

\* The value of a state cell after the queued plain updates q: the last wins.
ApplyUpdates(old, q) == IF q = <<>> THEN old ELSE q[Len(q)]

\* A variant of effectUpdates with the clamp effect declared before the
\* reset effect.
effectUpdatesClampFirst(runReset, runClamp, p, tp) ==
  (IF runClamp THEN clampEffect(p, tp) ELSE <<>>)
    \o (IF runReset THEN resetEffect ELSE <<>>)

\* The setCurrentPage calls of one pass of the pending effects, which run in
\* the order of their declaration, each on the values of the render it closes over.
effectUpdates(runReset, runClamp, p, tp) ==
  (IF runReset THEN resetEffect ELSE <<>>)
    \o (IF runClamp THEN clampEffect(p, tp) ELSE <<>>)

(***************************************************************************)
(* Actions.  An event handler runs on a committed render whose effects     *)
(* have been flushed: React flushes the passive effects of a commit before *)
(* it renders again.                                                       *)
(***************************************************************************)
\* The caller renders the table again with the rows `rows`.
SetData(rows) ==
  /\ ~EffectsPending
  /\ UNCHANGED inputField
  /\ data' = rows
  /\ notified' = <<>>
  /\ UNCHANGED << selectable, selectionMode, itemsPerPage, sortConfig,
                  selectedRows, currentPage, lengthDep, pageDeps >>

\* One pass of the passive effects after a commit.
RunEffects ==
  /\ EffectsPending
  /\ UNCHANGED inputField
  /\ currentPage' =
       ApplyUpdates(currentPage,
                    effectUpdates(ResetPending, ClampPending, currentPage, totalPages))
  /\ lengthDep' = Len(data)
  /\ pageDeps' = << totalPages, currentPage >>
  /\ notified' = <<>>
  /\ UNCHANGED << props, sortConfig, selectedRows >>

\* A variant of handleSort without the early return for a column that is
\* not sortable.
handleSortAnyColumn(key, sortable) ==
  /\ sortConfig' = sortUpdater(sortConfig, key)
  /\ notified' = <<>>
  /\ UNCHANGED << props, selectedRows, currentPage, lengthDep, pageDeps >>

\* A variant of handleSort that also drops the selection and reports it.
handleSortClearsSelection(key, sortable) ==
  /\ sortConfig' = IF sortable THEN sortUpdater(sortConfig, key) ELSE sortConfig
  /\ selectedRows' = IF sortable THEN {} ELSE selectedRows
  /\ notified' = IF sortable THEN << <<>> >> ELSE <<>>
  /\ UNCHANGED << props, currentPage, lengthDep, pageDeps >>

\* A variant of handleSort that also returns to the first page.
handleSortResetsPage(key, sortable) ==
  /\ sortConfig' = IF sortable THEN sortUpdater(sortConfig, key) ELSE sortConfig
  /\ currentPage' = IF sortable THEN 1 ELSE currentPage
  /\ notified' = <<>>
  /\ UNCHANGED << props, selectedRows, lengthDep, pageDeps >>

handleSort(key, sortable) ==
  /\ sortConfig' = IF sortable THEN sortUpdater(sortConfig, key) ELSE sortConfig
  /\ notified' = <<>>
  /\ UNCHANGED << props, selectedRows, currentPage, lengthDep, pageDeps >>

\* onClick of the header of column col.
HeaderClick(col) ==
  /\ ~EffectsPending
  /\ UNCHANGED inputField
  /\ TableRendered
  /\ handleSort(col.dataIndex, col.sortable)

\* onKeyDown of the header of column col with the key k.
HeaderKeyDown(col, k) ==
  /\ ~EffectsPending
  /\ UNCHANGED inputField
  /\ TableRendered
  /\ IF col.sortable /\ k \in {"Enter", " "}
     THEN handleSort(col.dataIndex, col.sortable)
     ELSE /\ notified' = <<>>
          /\ UNCHANGED << props, sortConfig, selectedRows, currentPage,
                          lengthDep, pageDeps >>

\* A variant of handleSelectRow that reports the selected rows of the
\* sorted view instead of the caller's rows.
handleSelectRowSorted(row) ==
  /\ ~EffectsPending
  /\ UNCHANGED inputField
  /\ UNCHANGED << props, sortConfig, currentPage, lengthDep, pageDeps >>
  /\ LET page == paginatedData
     IN \E i \in 1..Len(page) : page[i] = row
  /\ IF ~selectable
     THEN /\ notified' = <<>>
          /\ UNCHANGED selectedRows
     ELSE /\ selectedRows' = selectRowUpdater(selectedRows, row.id, selectionMode)
          /\ notified' = << notifySelection(selectedRows', sortedData) >>

\* onChange of the checkbox / radio of a row of the current page.
handleSelectRow(row) ==
  /\ ~EffectsPending
  /\ UNCHANGED inputField
  /\ UNCHANGED << props, sortConfig, currentPage, lengthDep, pageDeps >>
  /\ LET page == paginatedData
     IN \E i \in 1..Len(page) : page[i] = row
  /\ IF ~selectable
     THEN /\ notified' = <<>>
          /\ UNCHANGED selectedRows
     ELSE /\ selectedRows' = selectRowUpdater(selectedRows, row.id, selectionMode)
          /\ notified' = << notifySelection(selectedRows', data) >>

\* A variant of handleSelectAll that returns early only when the table is
\* not selectable.
handleSelectAllAnyMode ==
  /\ ~EffectsPending
  /\ UNCHANGED inputField
  /\ TableRendered
  /\ IF ~selectable
     THEN /\ notified' = <<>>
          /\ UNCHANGED selectedRows
     ELSE /\ selectedRows' = selectAllUpdater(selectedRows, data)
          /\ notified' = << notifySelection(selectedRows', data) >>
  /\ UNCHANGED << props, sortConfig, currentPage, lengthDep, pageDeps >>

\* onChange of the select-all checkbox.
handleSelectAll ==
  /\ ~EffectsPending
  /\ UNCHANGED inputField
  /\ TableRendered
  /\ IF ~selectable \/ selectionMode = "single"
     THEN /\ notified' = <<>>
          /\ UNCHANGED selectedRows
     ELSE /\ selectedRows' = selectAllUpdater(selectedRows, data)
          /\ notified' = << notifySelection(selectedRows', data) >>
  /\ UNCHANGED << props, sortConfig, currentPage, lengthDep, pageDeps >>

goToNext ==
  /\ ~EffectsPending
  /\ UNCHANGED inputField
  /\ TableRendered
  /\ currentPage' = goToNextUpdater(currentPage, totalPages)
  /\ notified' = <<>>
  /\ UNCHANGED << props, sortConfig, selectedRows, lengthDep, pageDeps >>

goToPrev ==
  /\ ~EffectsPending
  /\ UNCHANGED inputField
  /\ TableRendered
  /\ currentPage' = goToPrevUpdater(currentPage)
  /\ notified' = <<>>
  /\ UNCHANGED << props, sortConfig, selectedRows, lengthDep, pageDeps >>

Keys == {"Enter", " ", "a"}

(***************************************************************************)
(* The InputField form.                                                    *)
(***************************************************************************)
\* What the user can have in a text field.
Texts == {"", "Ann", "Bob"}

\* The value prop: absent (undefined), or a string.
NoValue == [isString |-> FALSE, s |-> ""]

StringValue(s) == [isString |-> TRUE, s |-> s]

Values == {NoValue} \cup {StringValue(s) : s \in Texts}

\* Deps of the value effect before it has run.
NoValueDep == [isString |-> FALSE, s |-> "unset"]

isDisabled == disabled \/ loading

\* The disabled attribute of each interactive element.
FullnameDisabled == isDisabled

UsernameDisabled == isDisabled

PasswordDisabled == isDisabled

ShowPasswordDisabled == isDisabled

HumanDisabled == isDisabled

\* A variant of SubmitDisabled that ignores the checkbox.
SubmitDisabledIgnoresHuman == loading

SubmitDisabled == ~isHuman \/ loading

ResetDisabled == isDisabled

\* A variant of ClearOffered that ignores the disabled state.
ClearOfferedWhenDisabled == fullname # ""

\* The clear button is rendered.
ClearOffered == fullname # "" /\ ~isDisabled

\* The value effect is pending when its deps differ from those of its last run.
ValueEffectPending == valueDep # value

\* The calls of onClear of a handler that invokes it when it is provided.
callOnClear == IF onClear THEN 1 ELSE 0

\* The caller renders the form again with these props.
Rerender(v, d, l) ==
  /\ ~ValueEffectPending
  /\ value' = v
  /\ disabled' = d
  /\ loading' = l
  /\ cleared' = 0
  /\ UNCHANGED << onClear, fullname, username, password, showPassword,
                  isHuman, valueDep >>
  /\ UNCHANGED dataTable

\* A variant of valueEffect that never copies the prop.
valueEffectNever == fullname

\* The full name after the effect body: setFullname(value) for a string.
valueEffect == IF value.isString THEN value.s ELSE fullname

\* The passive effect on [value] after a commit.
RunValueEffect ==
  /\ ValueEffectPending
  /\ fullname' = valueEffect
  /\ valueDep' = value
  /\ cleared' = 0
  /\ UNCHANGED << value, disabled, loading, onClear, username, password,
                  showPassword, isHuman >>
  /\ UNCHANGED dataTable

\* onChange of the full name input with the text t.
ChangeFullname(t) ==
  /\ ~ValueEffectPending
  /\ ~FullnameDisabled
  /\ t # fullname
  /\ fullname' = t
  /\ cleared' = 0
  /\ UNCHANGED << value, disabled, loading, onClear, username, password,
                  showPassword, isHuman, valueDep >>
  /\ UNCHANGED dataTable

\* onChange of the username input with the text t.
ChangeUsername(t) ==
  /\ ~ValueEffectPending
  /\ ~UsernameDisabled
  /\ t # username
  /\ username' = t
  /\ cleared' = 0
  /\ UNCHANGED << value, disabled, loading, onClear, fullname, password,
                  showPassword, isHuman, valueDep >>
  /\ UNCHANGED dataTable

\* onChange of the password input with the text t.
ChangePassword(t) ==
  /\ ~ValueEffectPending
  /\ ~PasswordDisabled
  /\ t # password
  /\ password' = t
  /\ cleared' = 0
  /\ UNCHANGED << value, disabled, loading, onClear, fullname, username,
                  showPassword, isHuman, valueDep >>
  /\ UNCHANGED dataTable

\* onClick of the show / hide password button.
ToggleShowPassword ==
  /\ ~ValueEffectPending
  /\ ~ShowPasswordDisabled
  /\ showPassword' = ~showPassword
  /\ cleared' = 0
  /\ UNCHANGED << value, disabled, loading, onClear, fullname, username,
                  password, isHuman, valueDep >>
  /\ UNCHANGED dataTable

\* onChange of the human checkbox: e.target.checked is the toggled state.
ChangeHuman ==
  /\ ~ValueEffectPending
  /\ ~HumanDisabled
  /\ isHuman' = ~isHuman
  /\ cleared' = 0
  /\ UNCHANGED << value, disabled, loading, onClear, fullname, username,
                  password, showPassword, valueDep >>
  /\ UNCHANGED dataTable
\* onClick of the clear button, which exists only while it is rendered.
handleClearFullname ==
  /\ ~ValueEffectPending
  /\ ClearOffered
  /\ fullname' = ""
  /\ cleared' = callOnClear
  /\ UNCHANGED << value, disabled, loading, onClear, username, password,
                  showPassword, isHuman, valueDep >>
  /\ UNCHANGED dataTable

\* A variant of ResetClick that leaves the human checkbox as it is.
ResetClickKeepsHuman ==
  /\ ~ValueEffectPending
  /\ ~ResetDisabled
  /\ fullname' = ""
  /\ username' = ""
  /\ password' = ""
  /\ cleared' = callOnClear
  /\ UNCHANGED << value, disabled, loading, onClear, showPassword, isHuman,
                  valueDep >>
  /\ UNCHANGED dataTable

\* onClick of the Reset button.
ResetClick ==
  /\ ~ValueEffectPending
  /\ ~ResetDisabled
  /\ fullname' = ""
  /\ username' = ""
  /\ password' = ""
  /\ isHuman' = FALSE
  /\ cleared' = callOnClear
  /\ UNCHANGED << value, disabled, loading, onClear, showPassword, valueDep >>
  /\ UNCHANGED dataTable

\* onClick of the Submit button: an alert, no state is written.
SubmitClick ==
  /\ ~ValueEffectPending
  /\ ~SubmitDisabled
  /\ cleared' = 0
  /\ UNCHANGED << value, disabled, loading, onClear, fullname, username,
                  password, showPassword, isHuman, valueDep >>
  /\ UNCHANGED dataTable

\* The form after its first render.
FormMounted ==
  /\ fullname = (IF value.isString THEN value.s ELSE "")
  /\ username = ""
  /\ password = ""
  /\ showPassword = FALSE
  /\ isHuman = FALSE
  /\ valueDep = NoValueDep
  /\ cleared = 0

\* The form mounted without props and left alone.
InputFieldIdle ==
  /\ value = NoValue
  /\ disabled = FALSE
  /\ loading = FALSE
  /\ onClear = FALSE
  /\ FormMounted

(***************************************************************************)
(* Spec: the table in every selection configuration, over the windows of   *)
(* Master.                                                                 *)
(***************************************************************************)
Mounted ==
  /\ sortConfig = NoSort
  /\ selectedRows = {}
  /\ currentPage = 1
  /\ lengthDep = NoLength
  /\ pageDeps = NoDeps
  /\ notified = <<>>

Init ==
  /\ data \in DataChoices
  /\ selectable \in BOOLEAN
  /\ selectionMode \in {"single", "multiple"}
  /\ itemsPerPage \in 1..MaxPageSize
  /\ Mounted
  /\ InputFieldIdle

Next ==
  \/ \E rows \in DataChoices : SetData(rows)
  \/ RunEffects
  \/ \E col \in ColumnSet : HeaderClick(col)
  \/ \E col \in ColumnSet, k \in Keys : HeaderKeyDown(col, k)
  \/ \E row \in Pool : handleSelectRow(row)
  \/ handleSelectAll
  \/ goToNext
  \/ goToPrev

Spec == Init /\ [][Next]_vars

(***************************************************************************)
(* SpecView: the table without selection, over the arrangements of Pool    *)
(* and the prefixes of the numbered rows.                                  *)
(***************************************************************************)
InitView ==
  /\ data \in ViewChoices
  /\ selectable = FALSE
  /\ selectionMode = "multiple"
  /\ itemsPerPage \in 1..MaxPageSize
  /\ Mounted
  /\ InputFieldIdle

NextView ==
  \/ \E rows \in ViewChoices : SetData(rows)
  \/ RunEffects
  \/ \E col \in ColumnSet : HeaderClick(col)
  \/ \E col \in ColumnSet, k \in Keys : HeaderKeyDown(col, k)
  \/ \E row \in Pool : handleSelectRow(row)
  \/ handleSelectAll
  \/ goToNext
  \/ goToPrev

SpecView == InitView /\ [][NextView]_vars

(***************************************************************************)
(* SpecPageSize: the table without selection over the windows of Master,   *)
(* for every itemsPerPage the caller can pass, zero and negative included. *)
(***************************************************************************)
MinPageSize == 0 - 1

InitPageSize ==
  /\ data \in DataChoices
  /\ selectable = FALSE
  /\ selectionMode = "multiple"
  /\ itemsPerPage \in MinPageSize..MaxPageSize
  /\ Mounted
  /\ InputFieldIdle

NextPageSize ==
  \/ \E rows \in DataChoices : SetData(rows)
  \/ RunEffects
  \/ \E col \in ColumnSet : HeaderClick(col)
  \/ \E col \in ColumnSet, k \in Keys : HeaderKeyDown(col, k)
  \/ \E row \in Pool : handleSelectRow(row)
  \/ handleSelectAll
  \/ (currentPage < MaxPage /\ goToNext)
  \/ goToPrev

SpecPageSize == InitPageSize /\ [][NextPageSize]_vars

(***************************************************************************)
(* SpecForm: the InputField form under every combination of its props,     *)
(* next to an empty table that is left alone.                              *)
(***************************************************************************)
DataTableIdle ==
  /\ data = << >>
  /\ selectable = FALSE
  /\ selectionMode = "multiple"
  /\ itemsPerPage = 10
  /\ Mounted

InitForm ==
  /\ value \in Values
  /\ disabled \in BOOLEAN
  /\ loading \in BOOLEAN
  /\ onClear \in BOOLEAN
  /\ FormMounted
  /\ DataTableIdle

NextForm ==
  \/ \E v \in Values, d \in BOOLEAN, l \in BOOLEAN : Rerender(v, d, l)
  \/ RunValueEffect
  \/ \E t \in Texts : ChangeFullname(t)
  \/ \E t \in Texts : ChangeUsername(t)
  \/ \E t \in Texts : ChangePassword(t)
  \/ ToggleShowPassword
  \/ ChangeHuman
  \/ handleClearFullname
  \/ ResetClick
  \/ SubmitClick

SpecForm == InitForm /\ [][NextForm]_vars

(***************************************************************************)
(* Properties.                                                             *)
(***************************************************************************)
Asc(k) == [key |-> k, direction |-> "asc"]

Desc(k) == [key |-> k, direction |-> "desc"]

\* A step that activates the header of col, by click or by Enter / Space.
Activates(col) ==
  HeaderClick(col) \/ HeaderKeyDown(col, "Enter") \/ HeaderKeyDown(col, " ")

Ids(rows) == [i \in 1..Len(rows) |-> rows[i].id]

Ages(rows) == [i \in 1..Len(rows) |-> rows[i].age.n]

\* C1: activating the header of a sortable column k leads from no sort or a
\* sort on another column to ascending on k, from ascending on k to
\* descending on k and from descending on k to ascending on k; once a sort
\* is active the configuration never returns to no sort.
C1_SortToggleCycle ==
  [][ /\ \A col \in ColumnSet :
           (col.sortable /\ Activates(col)) =>
             /\ (sortConfig = NoSort \/ sortConfig.key # col.dataIndex)
                  => sortConfig' = Asc(col.dataIndex)
             /\ sortConfig = Asc(col.dataIndex) => sortConfig' = Desc(col.dataIndex)
             /\ sortConfig = Desc(col.dataIndex) => sortConfig' = Asc(col.dataIndex)
      /\ sortConfig # NoSort => sortConfig' # NoSort ]_vars

\* The second activation of the age header has acted: descending on age.
C1_Witness == sortConfig = Desc("age") /\ ~EffectsPending

\* s is a rearrangement of r: every row occurs in both equally often.
IsPermutation(s, r) ==
  /\ Len(s) = Len(r)
  /\ \A x \in {r[i] : i \in 1..Len(r)} :
       Cardinality({i \in 1..Len(s) : s[i] = x})
         = Cardinality({i \in 1..Len(r) : r[i] = x})

\* C2: with an active sort the derived sequence is a permutation of the
\* caller's rows whose key values are non-decreasing (ascending) or
\* non-increasing (descending) under the comparator; the rows with ids 1, 2, 3
\* and ages 30, 25, 35 come out as 2, 1, 3 ascending and 3, 1, 2 descending.
C2_SortedOrder ==
  LET s == sortedData
      k == sortConfig.key
      example == Ids(data) = <<1, 2, 3>> /\ Ages(data) = <<30, 25, 35>>
  IN /\ sortConfig # NoSort =>
          /\ IsPermutation(s, data)
          /\ \A i, j \in 1..Len(s) :
               i < j =>
                 IF sortConfig.direction = "asc"
                 THEN compare(s[i][k], s[j][k]) <= 0
                 ELSE compare(s[i][k], s[j][k]) >= 0
     /\ (example /\ sortConfig = Asc("age")) => Ids(s) = <<2, 1, 3>>
     /\ (example /\ sortConfig = Desc("age")) => Ids(s) = <<3, 1, 2>>

\* Rows 1, 2, 3 are shown sorted by age, descending.
C2_Witness ==
  /\ Ids(data) = <<1, 2, 3>>
  /\ Ages(data) = <<30, 25, 35>>
  /\ sortConfig = Desc("age")
  /\ Ids(sortedData) = <<3, 1, 2>>

\* The position of row x in the caller's rows.
IndexIn(rows, x) == CHOOSE i \in 1..Len(rows) : rows[i] = x

\* C3: the sort is stable and idempotent: rows whose key values compare
\* equal keep the relative order of the caller's input, ascending and
\* descending, and sorting the sorted sequence again changes nothing.
C3_StableIdempotent ==
  LET s == sortedData
      k == sortConfig.key
  IN sortConfig # NoSort =>
       /\ \A i, j \in 1..Len(s) :
            (i < j /\ compare(s[i][k], s[j][k]) = 0)
              => IndexIn(data, s[i]) < IndexIn(data, s[j])
       /\ applySort(s, sortConfig) = s

\* Rows 4 and 2 have equal ages and are supplied in the order 4, 1, 2: sorted
\* by age, descending, row 1 moves to the front and 4 stays before 2.
C3_Witness ==
  /\ Ids(data) = <<4, 1, 2>>
  /\ sortConfig = Desc("age")
  /\ Ids(sortedData) = <<1, 4, 2>>

\* The page slices of pages 1..k of rows, concatenated.
RECURSIVE ConcatPages(_, _, _)
ConcatPages(rows, k, p) ==
  IF k = 0 THEN <<>>
  ELSE ConcatPages(rows, k - 1, p) \o PageSlice(rows, k, p)

\* C4: totalPages is max(1, ceil(n / p)) (the least number of pages of p rows
\* that hold n rows, 1 for no rows), the page slices of pages 1..totalPages
\* concatenated are the full sorted sequence, and every page but the last
\* holds exactly p rows.
C4_PaginationCoverage ==
  LET n == Len(data)
      p == itemsPerPage
      s == sortedData
  IN /\ n = 0 => totalPages = 1
     /\ n > 0 => (totalPages * p >= n /\ (totalPages - 1) * p < n)
     /\ ConcatPages(s, totalPages, p) = s
     /\ \A k \in 1..(totalPages - 1) : Len(PageSlice(s, k, p)) = p

\* Three sorted rows on pages of two: the last page is shown and holds one row.
C4_Witness ==
  /\ Len(data) = 3
  /\ itemsPerPage = 2
  /\ sortConfig # NoSort
  /\ currentPage = 2
  /\ Len(paginatedData) = 1

\* C5: in every render of the table 1 <= currentPage <= totalPages, the
\* render right after the caller has supplied fewer rows included.
C5_PageInRange == 1 <= currentPage /\ currentPage <= totalPages

\* A pass of the effects that processes a change of the row count (the
\* reset effect has run before and its dep data.length has changed).
ProcessesLengthChange == RunEffects /\ ResetPending /\ lengthDep # NoLength

\* C6: whenever the number of rows changes, the current page is 1 once the
\* effects have processed the change, whatever it was before.
C6_ResetOnLengthChange == [][ProcessesLengthChange => currentPage' = 1]_vars

\* C7: when the row count drops so that totalPages falls below the current
\* page, the effects set the current page to the new totalPages, and it
\* stays there: a pass of the clamp effect alone never moves the page.  With
\* 10 rows on pages of 2, page 5, then 3 rows, the page settles at 2.
C7_ClampOnShrink ==
  [][ RunEffects =>
        /\ currentPage > totalPages => currentPage' = totalPages
        /\ ~ResetPending => currentPage' = currentPage ]_vars

\* 3 rows on pages of 2 after the effects of a render that still had page 5:
\* the page is 2.
C7_Witness ==
  /\ Len(data) = 3
  /\ itemsPerPage = 2
  /\ lengthDep = 3
  /\ pageDeps = << 2, 5 >>
  /\ currentPage = 2

\* C8: goToNext moves to the next page, goToPrev to the previous one; on
\* the last page goToNext, and on page 1 goToPrev, leave the page where it
\* is, so the page stays within 1..totalPages.
C8_NavigationClamped ==
  [][ /\ goToNext =>
           /\ currentPage < totalPages => currentPage' = currentPage + 1
           /\ currentPage = totalPages => currentPage' = currentPage
      /\ goToPrev =>
           /\ currentPage > 1 => currentPage' = currentPage - 1
           /\ currentPage = 1 => currentPage' = currentPage
      /\ (goToNext \/ goToPrev) =>
           (1 <= currentPage' /\ currentPage' <= totalPages') ]_vars

\* The last of at least three pages is current and its effects have run: a
\* goToNext is clamped here, and a goToPrev moves.
C8_Witness ==
  /\ totalPages >= 3
  /\ currentPage = totalPages
  /\ ~EffectsPending

\* C9: in single mode, toggling the selected row empties the selection and
\* toggling any other row makes the selection exactly that row.
C9_SingleSelect ==
  [][ \A row \in Pool :
        (selectable /\ selectionMode = "single" /\ handleSelectRow(row)) =>
          /\ row.id \in selectedRows => selectedRows' = {}
          /\ row.id \notin selectedRows => selectedRows' = {row.id} ]_vars

\* In single mode row 2 is the selection and the last call reported row 2 alone.
C9_Witness ==
  /\ selectable
  /\ selectionMode = "single"
  /\ selectedRows = {2}
  /\ notified = << << Master[2] >> >>

\* C10: in multiple mode, toggling a row flips the membership of its id in
\* the selection and leaves the membership of every other id as it was.
C10_MultiToggle ==
  [][ \A row \in Pool :
        (selectable /\ selectionMode = "multiple" /\ handleSelectRow(row)) =>
          /\ row.id \in selectedRows' <=> row.id \notin selectedRows
          /\ selectedRows' \ {row.id} = selectedRows \ {row.id} ]_vars

\* In multiple mode rows 1 and 3 of three are selected and the last call
\* reported them.
C10_Witness ==
  /\ selectable
  /\ selectionMode = "multiple"
  /\ Ids(data) = <<1, 2, 3>>
  /\ selectedRows = {1, 3}
  /\ notified = << << Master[1], Master[3] >> >>

\* C11: select-all in multiple mode is a toggle: when the selection has as
\* many ids as there are rows it empties the selection and reports no rows;
\* otherwise, a partial selection included, it selects the ids of all rows
\* and reports all rows in the caller's order.  From an empty selection the
\* first activation selects as many ids as there are rows, so the second
\* one empties the selection again.
C11_SelectAllToggle ==
  [][ (selectable /\ selectionMode = "multiple" /\ handleSelectAll) =>
        /\ Cardinality(selectedRows) = Len(data) =>
             (selectedRows' = {} /\ notified' = << <<>> >>)
        /\ Cardinality(selectedRows) # Len(data) =>
             /\ selectedRows' = {data[i].id : i \in 1..Len(data)}
             /\ notified' = << data >>
        /\ selectedRows = {} => Cardinality(selectedRows') = Len(data) ]_vars

\* All three rows are selected and the last call reported all of them in the
\* caller's order.
C11_Witness ==
  /\ selectable
  /\ selectionMode = "multiple"
  /\ Len(data) = 3
  /\ selectedRows = {data[i].id : i \in 1..Len(data)}
  /\ notified = << data >>

\* arr lists exactly the rows of rows whose id is in ids, in the order of rows.
IsSelectionOf(arr, ids, rows) ==
  /\ {arr[i] : i \in 1..Len(arr)}
       = {rows[i] : i \in {j \in 1..Len(rows) : rows[j].id \in ids}}
  /\ \A i, j \in 1..Len(arr) :
       i < j => IndexIn(rows, arr[i]) < IndexIn(rows, arr[j])

\* C12: every change of the selection set calls onRowSelect once, with the
\* full records of the caller's rows whose id is in the new selection, in
\* the caller's order: whatever the sort, the order of selecting, the page.
C12_NotifiesInDataOrder ==
  [][ selectedRows' # selectedRows =>
        /\ Len(notified') = 1
        /\ IsSelectionOf(notified'[1], selectedRows', data) ]_vars

\* Rows 1 and 3 are selected on pages of one row sorted by age, descending
\* (3, 1, 2): the last call reported rows 1, 3 in the caller's order.
C12_Witness ==
  /\ Ids(data) = <<1, 2, 3>>
  /\ itemsPerPage = 1
  /\ sortConfig = Desc("age")
  /\ selectedRows = {1, 3}
  /\ notified = << << Master[1], Master[3] >> >>

\* C13: goToNext, goToPrev and the activation of a header leave the
\* selection set as it is and do not call onRowSelect.
C13_SelectionIndependent ==
  [][ (goToNext \/ goToPrev \/ \E col \in ColumnSet : Activates(col)) =>
        (selectedRows' = selectedRows /\ notified' = <<>>) ]_vars

\* Row 1, which sorted by age (descending) is on the second page of one row,
\* is still the selection while the third page is shown.
C13_Witness ==
  /\ Ids(data) = <<1, 2, 3>>
  /\ itemsPerPage = 1
  /\ sortConfig = Desc("age")
  /\ currentPage = 3
  /\ selectedRows = {1}
  /\ notified = <<>>

\* C14: every id in the selection set is the id of a row of the current row
\* sequence: a replacement of the rows that drops a selected row clears it
\* from the selection.
C14_SelectionWithinRows == selectedRows \subseteq {data[i].id : i \in 1..Len(data)}

\* C15: in multiple mode the selection set never has more ids than there
\* are rows, also right after the caller has supplied fewer rows.
C15_SelectionAtMostRows ==
  selectionMode = "multiple" => Cardinality(selectedRows) <= Len(data)

\* C16: in single mode the selection set has at most one member.
C16_SingleAtMostOne ==
  selectionMode = "single" => Cardinality(selectedRows) <= 1

\* In single mode, right after a toggle, one id is selected although at
\* least two rows are supplied and a sort is active.
C16_Witness ==
  /\ selectable
  /\ selectionMode = "single"
  /\ Len(data) >= 2
  /\ Cardinality(selectedRows) = 1
  /\ notified # <<>>
  /\ sortConfig # NoSort

\* C17: activating the header of a column that is not sortable, by click or
\* by Enter / Space, changes neither the sort configuration nor the order
\* of the displayed rows, with or without an active sort.
C17_NonSortableNoTransition ==
  [][ \A col \in ColumnSet :
        (~col.sortable /\ Activates(col)) =>
          /\ sortConfig' = sortConfig
          /\ applySort(data', sortConfig') = applySort(data, sortConfig) ]_vars

\* The table is shown sorted by age, descending, in an order that differs
\* from the caller's, its effects have run and no call was made in the last
\* step: the state in which, and after which, the status header is activated.
C17_Witness ==
  /\ sortConfig = Desc("age")
  /\ TableRendered
  /\ ~EffectsPending
  /\ sortedData # data
  /\ notified = <<>>

\* C19: two absent values compare equal and an absent value compares below
\* every present one, so an ascending sort puts the rows without a key
\* first, and a descending sort, which negates the comparator, puts them
\* after all rows with a key.
C19_NullsFirstAscLastDesc ==
  LET s == sortedData
      k == sortConfig.key
  IN /\ compare(Null, Null) = 0
     /\ sortConfig # NoSort =>
          /\ \A i \in 1..Len(s) :
               s[i][k] # Null =>
                 (compare(Null, s[i][k]) < 0 /\ compare(s[i][k], Null) > 0)
          /\ \A i, j \in 1..Len(s) :
               i < j =>
                 IF sortConfig.direction = "asc"
                 THEN s[j][k] = Null => s[i][k] = Null
                 ELSE s[i][k] = Null => s[j][k] = Null

\* Row 5, without an age, is supplied first and shown last when sorted by
\* age, descending.
C19_Witness ==
  /\ Ids(data) = <<5, 1, 2>>
  /\ sortConfig = Desc("age")
  /\ Ids(sortedData) = <<1, 2, 5>>

\* C20: in single mode select-all leaves the selection set as it is and
\* does not call onRowSelect, whatever is selected.
C20_SelectAllNoOpInSingle ==
  [][ (selectionMode = "single" /\ handleSelectAll) =>
        (selectedRows' = selectedRows /\ notified' = <<>>) ]_vars

\* In single mode one of three rows is selected, the table's effects have
\* run and the last step made no call: select-all has nothing to change here.
C20_Witness ==
  /\ selectable
  /\ selectionMode = "single"
  /\ Len(data) = 3
  /\ Cardinality(selectedRows) = 1
  /\ ~EffectsPending
  /\ notified = <<>>

\* C18: a page size below 1 is rejected or clamped to 1 at the boundary:
\* in no render are totalPages and the page slice derived from a page size
\* below 1.
C18_PageSizeAtLeastOne == pageSize >= 1

(***************************************************************************)
(* Properties of the InputField form.                                      *)
(***************************************************************************)
\* C21: whenever the disabled prop or the loading prop is true, every
\* interactive element is disabled: the three text inputs, the human
\* checkbox, the show-password button, Reset and Submit.
C21_AllDisabled ==
  (disabled \/ loading) =>
    /\ FullnameDisabled
    /\ UsernameDisabled
    /\ PasswordDisabled
    /\ HumanDisabled
    /\ ShowPasswordDisabled
    /\ ResetDisabled
    /\ SubmitDisabled

\* C22: Submit is enabled only while the human checkbox is checked: it is
\* disabled after mount, enabled after the checkbox is checked, disabled
\* after it is unchecked or Reset is pressed, and typing in a text field
\* never changes it.
C22_SubmitNeedsHuman ==
  [][ /\ ~SubmitDisabled => isHuman
      /\ (valueDep = NoValueDep) => SubmitDisabled
      /\ (ChangeHuman /\ ~isHuman) => ~SubmitDisabled'
      /\ (ChangeHuman /\ isHuman) => SubmitDisabled'
      /\ ResetClick => SubmitDisabled'
      /\ (\E t \in Texts : ChangeFullname(t) \/ ChangeUsername(t) \/ ChangePassword(t))
           => (SubmitDisabled' = SubmitDisabled) ]_vars

\* Submit is enabled and all three text fields hold text.
C22_Witness ==
  ~SubmitDisabled /\ fullname # "" /\ username # "" /\ password # ""

\* C23: pressing Reset sets full name, username and password to the empty
\* string and the human checkbox to unchecked, calls onClear once when it
\* is provided, and no pending effect writes the full name back.
C23_ResetClearsAll ==
  [][ ResetClick =>
        /\ fullname' = ""
        /\ username' = ""
        /\ password' = ""
        /\ isHuman' = FALSE
        /\ cleared' = (IF onClear THEN 1 ELSE 0)
        /\ ~ValueEffectPending' ]_vars

\* The form after a Reset with a non-empty value prop and onClear provided.
C23_Witness ==
  /\ cleared = 1
  /\ fullname = "" /\ username = "" /\ password = "" /\ ~isHuman
  /\ value.isString /\ value.s # ""
  /\ showPassword

\* C24: the clear button is offered exactly when the full name is non-empty
\* and the form is neither disabled nor loading; pressing it empties the
\* full name, calls onClear once when it is provided, and leaves username,
\* password, the human checkbox and the password visibility as they were.
C24_ClearFullnameOnly ==
  [][ /\ ClearOffered <=> (fullname # "" /\ ~disabled /\ ~loading)
      /\ handleClearFullname =>
           /\ fullname # "" /\ ~disabled /\ ~loading
           /\ fullname' = ""
           /\ cleared' = (IF onClear THEN 1 ELSE 0)
           /\ UNCHANGED << username, password, isHuman, showPassword >> ]_vars

\* The form after the clear button was pressed with the other fields set.
C24_Witness ==
  /\ cleared = 1
  /\ fullname = ""
  /\ username # "" /\ password # "" /\ isHuman /\ showPassword

\* C25: the full name starts as the value prop; when the value prop has
\* changed, the effect sets the full name to the new string whatever the
\* user typed or cleared in between; a render with the same value prop
\* leaves the full name alone.
C25_FullnameFollowsValue ==
  [][ /\ (valueDep = NoValueDep /\ value.isString) => fullname = value.s
      /\ \A v \in Values, d \in BOOLEAN, l \in BOOLEAN :
           Rerender(v, d, l) =>
             /\ fullname' = fullname
             /\ ValueEffectPending' <=> (v # value)
      /\ (RunValueEffect /\ value.isString) => fullname' = value.s ]_vars

\* The value prop has changed to a string that differs from the full name,
\* and the effect has not yet run.
C25_Witness ==
  /\ valueDep # NoValueDep
  /\ ValueEffectPending
  /\ value.isString
  /\ fullname # value.s
  /\ valueDep.isString /\ fullname # valueDep.s
  /\ username # ""

(***************************************************************************)
(* Further properties of the table.                                        *)
(***************************************************************************)
\* C26: whenever the select-all checkbox is shown, it is checked if and
\* only if the id of every current row is in the selection set, also after
\* the caller has replaced the rows by other rows of the same count.
C26_SelectAllCheckedIffAll ==
  SelectAllShown =>
    (SelectAllChecked <=> \A i \in 1..Len(data) : data[i].id \in selectedRows)

\* C27: every onRowSelect call passes rows whose ids are exactly the ids of
\* the selection set stored by that step, one row per id.
C27_NotifiedMatchesSelection ==
  [][ notified' # <<>> =>
        /\ Len(notified'[1]) = Cardinality(selectedRows')
        /\ {notified'[1][i].id : i \in 1..Len(notified'[1])} = selectedRows' ]_vars

\* C28: the activation of a sortable header changes the sort configuration
\* and nothing else: rows, page size, selection and page number stay, the
\* number of pages is the same, and the page number is within 1..totalPages
\* afterwards.
C28_SortKeepsPage ==
  [][ \A col \in ColumnSet :
        (col.sortable /\ Activates(col)) =>
          /\ sortConfig' = sortUpdater(sortConfig, col.dataIndex)
          /\ currentPage' = currentPage
          /\ UNCHANGED << data, itemsPerPage, selectedRows, lengthDep, pageDeps >>
          /\ TotalPagesOf(Len(data'), itemsPerPage') = totalPages
          /\ 1 <= currentPage'
          /\ currentPage' <= TotalPagesOf(Len(data'), itemsPerPage') ]_vars

\* A sorted view beyond its first page.
C28_Witness ==
  /\ sortConfig # NoSort
  /\ currentPage > 1
  /\ ~EffectsPending

====
